---- MODULE Spec2Model ----
(***************************************************************************)
(* A model of flotilla's request context (ctx.go): the cancellation tree   *)
(* (context, propagateCancel, cancel), the handler cursor (handlers, Next, *)
(* rerun, push) and the request life cycle (reset, Run, Cancel,            *)
(* replicate).                                                             *)
(*                                                                         *)
(* Every goroutine is a call stack of frames; one action is one step of    *)
(* the function on top of a stack.  The request goroutine Req runs         *)
(* reset/Run; the worker goroutines call replicate and cancel on the       *)
(* contexts of one request concurrently.                                   *)
(***************************************************************************)
EXTENDS Integers, Sequences, FiniteSets, TLC

\* ------------------------------------------------------------------ bounds
MaxChain == 2        \* longest handler chain bound by reset
MaxRerun == 1        \* longest chain handed to rerun
MaxNodes == 4        \* context nodes allocated in one behaviour
MaxRequests == 2     \* requests served by the one pooled ctx
MaxWorkers == 2      \* worker goroutines besides the request goroutine
MaxOps == 2          \* calls the worker goroutines make in total
MaxServers == 2      \* ServeHTTP calls in flight at once
MaxCtxs == 3         \* ctx values the pool constructs in one behaviour

\* --------------------------------------------------------------- constants
IndexBits == 8       \* handlers.index is an int8
IndexMod == 2 ^ IndexBits
Int8(x) == ((x + IndexMod \div 2) % IndexMod) - IndexMod \div 2

Req == 0
Workers == 1 .. MaxWorkers
Threads == {Req} \cup Workers

NoErr == "nil"            \* a nil error
Canceled == "Canceled"    \* var Canceled
Other == "Other"          \* any other non-nil error
NoNode == 0               \* a nil *context
Free == -1                \* an unlocked sync.Mutex
Release == 0              \* the finalizer Run queues: c.Call("release")

VARIABLES
    nodes,      \* the contexts allocated so far, by id
    ctxNode,    \* ctx.context of the pooled ctx
    ctxs,       \* the contexts of the ctx values handed to callers
    index,      \* handlers.index
    managers,   \* handlers.managers
    deferred,   \* handlers.deferred
    phase,      \* where the pooled ctx is in ServeHTTP
    stack,      \* the call stack of every goroutine
    status,     \* "ok", or "panicked" once a goroutine has panicked
    log,        \* history: handler calls, returns and finalizers of the request
    epoch,      \* history: reruns of the request so far
    chain,      \* history: the chain the last reset was given
    prior,      \* history: what the last reset found in the ctx
    reqs,       \* history: requests started
    ops,        \* calls the workers may still make
    pool        \* App.p and the ServeHTTP calls in flight

vars == <<nodes, ctxNode, ctxs, index, managers, deferred, phase, stack,
          status, log, epoch, chain, prior, reqs, ops, pool>>
request == <<nodes, ctxNode, ctxs, index, managers, deferred, phase, stack,
             status, log, epoch, chain, prior, reqs, ops>>
cursor == <<index, managers, deferred>>
tree == <<nodes, ctxs>>
hist == <<log, epoch, chain, prior>>

\* ------------------------------------------------------------ context tree
\* &context{parent: p, done: make(chan struct{})}.  History: calls, the
\* cancel calls that locked the node; detached, the calls with
\* removeFromParent that returned; swept, the children registered when done
\* was closed.
newcontext(p) ==
    [parent |-> p, kids |-> {}, kidsNil |-> TRUE, done |-> "open",
     err |-> NoErr, mu |-> Free, calls |-> <<>>, detached |-> 0, swept |-> {}]

Ids == 1 .. Len(nodes)

RECURSIVE Ancestors(_)
Ancestors(n) ==
    IF nodes[n].parent = NoNode THEN {}
    ELSE {nodes[n].parent} \cup Ancestors(nodes[n].parent)

\* ------------------------------------------------------------- call stacks
Top(t) == stack[t][Len(stack[t])]
Running(t, f) == status[t] = "ok" /\ stack[t] # <<>> /\ Top(t).fn = f
At(t, f, pc) == Running(t, f) /\ Top(t).pc = pc
Push(t, f) == [stack EXCEPT ![t] = Append(@, f)]
Pop(t) == [stack EXCEPT ![t] = SubSeq(@, 1, Len(@) - 1)]
SetTop(t, f) == [stack EXCEPT ![t] = [@ EXCEPT ![Len(@)] = f]]
SetTopPush(t, f, g) == [stack EXCEPT ![t] = Append([@ EXCEPT ![Len(@)] = f], g)]

\* via is history: who made the call ("call": a caller of the context,
\* "parent": the range of the parent's cancel, "late": propagateCancel)
cancelFrame(c, removeFromParent, err, via) ==
    [fn |-> "cancel", c |-> c, removeFromParent |-> removeFromParent,
     err |-> err, pc |-> "enter", todo |-> {}, via |-> via]
propagateFrame(p, child) ==
    [fn |-> "propagateCancel", p |-> p, child |-> child, pc |-> "enter"]
replicateFrame(c) == [fn |-> "replicate", c |-> c, child |-> NoNode, pc |-> "alloc"]
NextFrame == [fn |-> "Next", pc |-> "enter", s |-> 0]
ErrFrame(c) == [fn |-> "Err", c |-> c, pc |-> "enter"]

\* A panic stops the goroutine where it is: ctx.go defers nothing on the
\* paths modelled and recovers nowhere, so the panic unwinds through Next, Run
\* and ServeHTTP without running any of their code.  The frames stay as the
\* record of where it was raised and the mutexes they hold stay locked.
Panic(t) == status' = [status EXCEPT ![t] = "panicked"]

\* ---------------------------------------------------------- context.cancel
\* Every field of a context but done is read and written under its mutex,
\* so a step is what a goroutine does between two lock operations.

\* cancelEnter, if a nil error were not refused
cancelEnterNoCheck(t) ==
    /\ At(t, "cancel", "enter")
    /\ LET f == Top(t) IN
       /\ nodes[f.c].mu = Free
       /\ nodes' = [nodes EXCEPT ![f.c].mu = t,
                                 ![f.c].err = f.err,
                                 ![f.c].calls = Append(@, [err |-> f.err, via |-> f.via])]
       /\ stack' = SetTop(t, [f EXCEPT !.pc = "close"])
    /\ UNCHANGED <<ctxNode, ctxs, cursor, phase, status, hist, reqs, ops, pool>>

\* cancelEnter, if c.err were set without holding c.mu
cancelEnterUnlocked(t) ==
    /\ At(t, "cancel", "enter")
    /\ LET f == Top(t) IN
       IF f.err = NoErr
       THEN /\ Panic(t)
            /\ UNCHANGED <<nodes, stack>>
       ELSE /\ nodes[f.c].mu = Free
            /\ nodes' = [nodes EXCEPT ![f.c].err = f.err,
                                      ![f.c].calls = Append(@, [err |-> f.err, via |-> f.via])]
            /\ stack' = SetTop(t, [f EXCEPT !.pc = "close"])
            /\ UNCHANGED status
    /\ UNCHANGED <<ctxNode, ctxs, cursor, phase, hist, reqs, ops, pool>>

\* if err == nil { panic }; c.mu.Lock(); c.err = err
cancelEnter(t) ==
    /\ At(t, "cancel", "enter")
    /\ LET f == Top(t) IN
       IF f.err = NoErr
       THEN /\ Panic(t)
            /\ UNCHANGED <<nodes, stack>>
       ELSE /\ nodes[f.c].mu = Free
            /\ nodes' = [nodes EXCEPT ![f.c].mu = t,
                                      ![f.c].err = f.err,
                                      ![f.c].calls = Append(@, [err |-> f.err, via |-> f.via])]
            /\ stack' = SetTop(t, [f EXCEPT !.pc = "close"])
            /\ UNCHANGED status
    /\ UNCHANGED <<ctxNode, ctxs, cursor, phase, hist, reqs, ops, pool>>

\* close(c.done): closing a closed channel panics.  The range over
\* c.children that follows starts here, over the children of now.
cancelClose(t) ==
    /\ At(t, "cancel", "close")
    /\ LET f == Top(t) IN
       IF nodes[f.c].done = "closed"
       THEN /\ Panic(t)
            /\ UNCHANGED <<nodes, stack>>
       ELSE /\ nodes' = [nodes EXCEPT ![f.c].done = "closed",
                                      ![f.c].swept = nodes[f.c].kids]
            /\ stack' = SetTop(t, [f EXCEPT !.pc = "range",
                                            !.todo = nodes[f.c].kids])
            /\ UNCHANGED status
    /\ UNCHANGED <<ctxNode, ctxs, cursor, phase, hist, reqs, ops, pool>>

\* for child := range c.children { child.cancel(false, err) }: a map is
\* ranged over in any order.
cancelChild(t) ==
    /\ At(t, "cancel", "range")
    /\ LET f == Top(t) IN
       \E child \in f.todo :
          stack' = SetTopPush(t, [f EXCEPT !.todo = @ \ {child}],
                              cancelFrame(child, FALSE, f.err, "parent"))
    /\ UNCHANGED <<nodes, ctxNode, ctxs, cursor, phase, status, hist, reqs, ops, pool>>

\* cancelReturn, if removing from the parent were done by cancelling it
cancelReturnUpward(t) ==
    /\ At(t, "cancel", "range")
    /\ LET f == Top(t) IN
       /\ f.todo = {}
       /\ nodes' = [nodes EXCEPT ![f.c].kids = {}, ![f.c].kidsNil = TRUE,
                                 ![f.c].mu = Free]
       /\ stack' = IF f.removeFromParent /\ nodes[f.c].parent # NoNode
                   THEN SetTopPush(t, [f EXCEPT !.removeFromParent = FALSE],
                                   cancelFrame(nodes[f.c].parent, FALSE, f.err, "call"))
                   ELSE Pop(t)
    /\ UNCHANGED <<ctxNode, ctxs, cursor, phase, status, hist, reqs, ops, pool>>

\* c.children = nil; c.mu.Unlock();
\* if removeFromParent { if c.children != nil { delete(c.children, c) } }
\* and return.  The map the code tests and deletes from is c's own, which it
\* has just set to nil.
cancelReturn(t) ==
    /\ At(t, "cancel", "range")
    /\ LET f == Top(t)
           children == {}
           childrenNil == TRUE IN
       /\ f.todo = {}
       /\ nodes' = [nodes EXCEPT
                      ![f.c].kids = IF f.removeFromParent /\ ~childrenNil
                                    THEN children \ {f.c} ELSE children,
                      ![f.c].kidsNil = childrenNil,
                      ![f.c].mu = Free,
                      ![f.c].detached = IF f.removeFromParent THEN @ + 1 ELSE @]
       /\ stack' = Pop(t)
    /\ UNCHANGED <<ctxNode, ctxs, cursor, phase, status, hist, reqs, ops, pool>>

\* --------------------------------------------------------- propagateCancel
\* propagateEnter, if p.err were not looked at
propagateEnterUnchecked(t) ==
    /\ At(t, "propagateCancel", "enter")
    /\ LET f == Top(t) IN
       /\ nodes[f.p].mu = Free
       /\ nodes' = [nodes EXCEPT ![f.p].mu = t,
                                 ![f.p].kids = @ \cup {f.child},
                                 ![f.p].kidsNil = FALSE]
       /\ stack' = SetTop(t, [f EXCEPT !.pc = "unlock"])
    /\ UNCHANGED <<ctxNode, ctxs, cursor, phase, status, hist, reqs, ops, pool>>

\* propagateEnter, if p.err were read without holding p.mu
propagateEnterUnlocked(t) ==
    /\ At(t, "propagateCancel", "enter")
    /\ LET f == Top(t) IN
       IF nodes[f.p].err # NoErr
       THEN /\ stack' = SetTopPush(t, [f EXCEPT !.pc = "unlock"],
                                   cancelFrame(f.child, FALSE, nodes[f.p].err, "late"))
            /\ UNCHANGED nodes
       ELSE /\ nodes' = [nodes EXCEPT ![f.p].kids = @ \cup {f.child},
                                      ![f.p].kidsNil = FALSE]
            /\ stack' = SetTop(t, [f EXCEPT !.pc = "unlock"])
    /\ UNCHANGED <<ctxNode, ctxs, cursor, phase, status, hist, reqs, ops, pool>>

\* if p.Done() == nil { return }: reset and replicate always make the
\* channel, so the test never returns here.  p.mu.Lock();
\* if p.err != nil { child.cancel(false, p.err) } else { p.children[child] = true }
propagateEnter(t) ==
    /\ At(t, "propagateCancel", "enter")
    /\ LET f == Top(t) IN
       /\ nodes[f.p].mu = Free
       /\ IF nodes[f.p].err # NoErr
          THEN /\ nodes' = [nodes EXCEPT ![f.p].mu = t]
               /\ stack' = SetTopPush(t, [f EXCEPT !.pc = "unlock"],
                                      cancelFrame(f.child, FALSE, nodes[f.p].err, "late"))
          ELSE /\ nodes' = [nodes EXCEPT ![f.p].mu = t,
                                         ![f.p].kids = @ \cup {f.child},
                                         ![f.p].kidsNil = FALSE]
               /\ stack' = SetTop(t, [f EXCEPT !.pc = "unlock"])
    /\ UNCHANGED <<ctxNode, ctxs, cursor, phase, status, hist, reqs, ops, pool>>

\* p.mu.Unlock()
propagateUnlock(t) ==
    /\ At(t, "propagateCancel", "unlock")
    /\ LET f == Top(t) IN
       /\ nodes' = [nodes EXCEPT ![f.p].mu = Free]
       /\ stack' = Pop(t)
    /\ UNCHANGED <<ctxNode, ctxs, cursor, phase, status, hist, reqs, ops, pool>>

\* -------------------------------------------------------------- context.Err
\* c.mu.Lock(); defer c.mu.Unlock()
ErrLock(t) ==
    /\ At(t, "Err", "enter")
    /\ nodes[Top(t).c].mu = Free
    /\ nodes' = [nodes EXCEPT ![Top(t).c].mu = t]
    /\ stack' = SetTop(t, [Top(t) EXCEPT !.pc = "return"])
    /\ UNCHANGED <<ctxNode, ctxs, cursor, phase, status, hist, reqs, ops, pool>>

\* return c.err, and the deferred Unlock
ErrReturn(t) ==
    /\ At(t, "Err", "return")
    /\ nodes' = [nodes EXCEPT ![Top(t).c].mu = Free]
    /\ stack' = Pop(t)
    /\ UNCHANGED <<ctxNode, ctxs, cursor, phase, status, hist, reqs, ops, pool>>

\* ----------------------------------------------------------- ctx.replicate
\* child := &context{parent: c.context, ...}; propagateCancel(c.context, child)
replicateAlloc(t) ==
    /\ At(t, "replicate", "alloc")
    /\ LET f == Top(t)
           child == Len(nodes) + 1 IN
       /\ nodes' = Append(nodes, newcontext(f.c))
       /\ stack' = SetTopPush(t, [f EXCEPT !.pc = "copy", !.child = child],
                              propagateFrame(f.c, child))
    /\ UNCHANGED <<ctxNode, ctxs, cursor, phase, status, hist, reqs, ops, pool>>

\* var rcopy ctx = *c; rcopy.context = child; return &rcopy: the copy shares
\* the *handlers of c, so only its context is its own.
replicateCopy(t) ==
    /\ At(t, "replicate", "copy")
    /\ ctxs' = ctxs \cup {Top(t).child}
    /\ stack' = Pop(t)
    /\ UNCHANGED <<nodes, ctxNode, cursor, phase, status, hist, reqs, ops, pool>>

\* one step of a goroutine inside the cancellation tree
TreeCall(t) ==
    \/ cancelEnter(t)
    \/ cancelClose(t)
    \/ cancelChild(t)
    \/ cancelReturn(t)
    \/ propagateEnter(t)
    \/ propagateUnlock(t)
    \/ replicateAlloc(t)
    \/ replicateCopy(t)

\* ------------------------------------------------------- handler functions
\* A Manage function is the list of calls it makes on its Ctx, in order.
OpNext == [op |-> "Next"]
OpPush == [op |-> "push"]
OpCancel == [op |-> "Cancel"]
OpReplicate == [op |-> "replicate"]
OpRerun(m) == [op |-> "rerun", managers |-> m]
OpPanic == [op |-> "panic"]
OpReplicaPush == [op |-> "replicaPush"]

Plain == <<>>                  \* returns at once
Wrap == <<OpNext>>             \* middleware: continues the chain itself
Pusher == <<OpPush>>           \* registers a finalizer
Canceler == <<OpCancel>>       \* cancels the request
Replicator == <<OpReplicate>>  \* spawns a replica
Panicker == <<OpPanic>>        \* panics
ReplicaPusher == <<OpReplicate, OpReplicaPush>>  \* r := c.replicate(); r.push(fn)
PlainChain(n) == [k \in 1 .. n |-> Plain]
WrapChain(n) == [k \in 1 .. n |-> Wrap]
Rerunner(n) == <<OpRerun(PlainChain(n))>>

Manages ==
    {Plain, Wrap, Pusher, Canceler, Replicator, Panicker, ReplicaPusher}
        \cup {Rerunner(n) : n \in 0 .. MaxRerun}

\* the shortest chain of middleware whose increments leave the int8
DeepLen == IndexMod \div 4

Chains ==
    UNION {[1 .. n -> Manages] : n \in 0 .. MaxChain} \cup {WrapChain(DeepLen)}

Replicates(m) ==
    Cardinality({k \in 1 .. Len(m) : \E j \in 1 .. Len(m[k]) : m[k][j] = OpReplicate})

\* ----------------------------------------------------------------- history
CallEv(i, ep) == [e |-> "call", i |-> i, ep |-> ep, nx |-> FALSE, rr |-> FALSE]
RetEv(f) == [e |-> "ret", i |-> f.i, ep |-> f.ep, nx |-> f.nx, rr |-> f.rr]
RerunEv(i, ep) == [e |-> "rerun", i |-> i, ep |-> ep, nx |-> FALSE, rr |-> TRUE]
FinEv(fn) == [e |-> "fin", i |-> fn, ep |-> 0, nx |-> FALSE, rr |-> FALSE]

\* ------------------------------------------------------------------ cursor
\* &handlers{index: -1}
defaulthandlers == [index |-> -1, managers |-> <<>>, deferred |-> <<>>]

\* push, if it put fn in front
pushFront(d, fn) == <<fn>> \o d

\* c.deferred = append(c.deferred, fn)
push(d, fn) == Append(d, fn)

RunFrame == [fn |-> "Run", pc |-> "Next", fns |-> <<>>, k |-> 0]
handlerFrame(m, i, ep) ==
    [fn |-> "handler", ops |-> m, i |-> i, ep |-> ep, nx |-> FALSE, rr |-> FALSE]

\* what a ctx holds of the request it served, as reset finds it
NoPrior == [used |-> FALSE, cancelled |-> FALSE, replicated |-> FALSE,
            pushed |-> FALSE, advanced |-> FALSE]
Found ==
    IF ctxNode = NoNode THEN NoPrior
    ELSE [used |-> TRUE, cancelled |-> nodes[ctxNode].err # NoErr,
          replicated |-> Len(nodes) > 1, pushed |-> Len(deferred) > 1,
          advanced |-> index # -1]

\* resetHandlers, if a ctx that has a context kept it
resetHandlersKeepsContext ==
    /\ phase = "idle"
    /\ status[Req] = "ok"
    /\ reqs < MaxRequests
    /\ nodes' = IF ctxNode = NoNode THEN <<newcontext(NoNode)>> ELSE nodes
    /\ ctxNode' = 1
    /\ ctxs' = {1}
    /\ index' = defaulthandlers.index
    /\ managers' = defaulthandlers.managers
    /\ deferred' = defaulthandlers.deferred
    /\ phase' = "reset"
    /\ log' = <<>>
    /\ epoch' = 0
    /\ chain' = <<>>
    /\ prior' = Found
    /\ reqs' = reqs + 1
    /\ UNCHANGED <<stack, status, ops, pool>>

\* getCtx: c.reset(rq, rw, m) on the pooled ctx, up to
\* c.context = &context{...}; c.handlers = defaulthandlers().  The contexts
\* of the request before are garbage from here on: the ctx was their only
\* holder.
resetHandlers ==
    /\ phase = "idle"
    /\ status[Req] = "ok"
    /\ reqs < MaxRequests
    /\ nodes' = <<newcontext(NoNode)>>
    /\ ctxNode' = 1
    /\ ctxs' = {1}
    /\ index' = defaulthandlers.index
    /\ managers' = defaulthandlers.managers
    /\ deferred' = defaulthandlers.deferred
    /\ phase' = "reset"
    /\ log' = <<>>
    /\ epoch' = 0
    /\ chain' = <<>>
    /\ prior' = Found
    /\ reqs' = reqs + 1
    /\ UNCHANGED <<stack, status, ops, pool>>

\* c.managers = m, the chain of the matched route; reset returns
resetManagers(m) ==
    /\ phase = "reset"
    /\ 1 + Replicates(m) <= MaxNodes
    /\ managers' = m
    /\ chain' = m
    /\ phase' = "bound"
    /\ UNCHANGED <<tree, ctxNode, index, deferred, stack, status, log, epoch,
                   prior, reqs, ops, pool>>

\* c.push(func(c Ctx) { c.Call("release") }); c.Next()
Run ==
    /\ phase = "bound"
    /\ deferred' = push(deferred, Release)
    /\ stack' = [stack EXCEPT ![Req] = <<RunFrame, NextFrame>>]
    /\ phase' = "running"
    /\ prior' = NoPrior
    /\ UNCHANGED <<tree, ctxNode, index, managers, status, log, epoch, chain, reqs, ops, pool>>

\* for _, fn := range c.deferred: the slice is read once, when Next is back
RunRange ==
    /\ At(Req, "Run", "Next")
    /\ stack' = SetTop(Req, [Top(Req) EXCEPT !.pc = "range", !.fns = deferred,
                                              !.k = 1])
    /\ UNCHANGED <<tree, ctxNode, cursor, phase, status, hist, reqs, ops, pool>>

\* fn(c)
RunFinalizer ==
    /\ At(Req, "Run", "range")
    /\ LET f == Top(Req) IN
       /\ f.k <= Len(f.fns)
       /\ log' = Append(log, FinEv(f.fns[f.k]))
       /\ stack' = SetTop(Req, [f EXCEPT !.k = @ + 1])
    /\ UNCHANGED <<tree, ctxNode, cursor, phase, status, epoch, chain, prior, reqs, ops, pool>>

\* Run returns to ServeHTTP, which puts the ctx back: a.putCtx(ctx)
RunReturn ==
    /\ At(Req, "Run", "range")
    /\ Top(Req).k > Len(Top(Req).fns)
    /\ stack' = Pop(Req)
    /\ phase' = "idle"
    /\ UNCHANGED <<tree, ctxNode, cursor, status, hist, reqs, ops, pool>>

\* c.index++; s := int8(len(c.managers))
NextEnter ==
    /\ At(Req, "Next", "enter")
    /\ index' = Int8(index + 1)
    /\ stack' = SetTop(Req, [Top(Req) EXCEPT !.pc = "test",
                                              !.s = Int8(Len(managers))])
    /\ UNCHANGED <<tree, ctxNode, managers, deferred, phase, status, hist, reqs, ops, pool>>

\* c.index < s: c.managers[c.index](c), which panics when the index is
\* outside the slice bound now
NextCall ==
    /\ At(Req, "Next", "test")
    /\ index < Top(Req).s
    /\ IF index >= 0 /\ index < Len(managers)
       THEN /\ stack' = SetTopPush(Req, [Top(Req) EXCEPT !.pc = "incr"],
                                   handlerFrame(managers[index + 1], index, epoch))
            /\ log' = Append(log, CallEv(index, epoch))
            /\ UNCHANGED status
       ELSE /\ Panic(Req)
            /\ UNCHANGED <<stack, log>>
    /\ UNCHANGED <<tree, ctxNode, cursor, phase, epoch, chain, prior, reqs, ops, pool>>

\* NextIncr, if a handler that returns ended the loop
NextIncrStop ==
    /\ At(Req, "Next", "incr")
    /\ index' = Top(Req).s
    /\ stack' = SetTop(Req, [Top(Req) EXCEPT !.pc = "test"])
    /\ UNCHANGED <<tree, ctxNode, managers, deferred, phase, status, hist, reqs, ops, pool>>

\* the handler is back: c.index++
NextIncr ==
    /\ At(Req, "Next", "incr")
    /\ index' = Int8(index + 1)
    /\ stack' = SetTop(Req, [Top(Req) EXCEPT !.pc = "test"])
    /\ UNCHANGED <<tree, ctxNode, managers, deferred, phase, status, hist, reqs, ops, pool>>

\* !(c.index < s): Next returns
NextReturn ==
    /\ At(Req, "Next", "test")
    /\ ~(index < Top(Req).s)
    /\ stack' = Pop(Req)
    /\ UNCHANGED <<tree, ctxNode, cursor, phase, status, hist, reqs, ops, pool>>

HandlerAt(o) ==
    /\ Running(Req, "handler")
    /\ Top(Req).ops # <<>>
    /\ Head(Top(Req).ops).op = o

\* the handler calls c.Next()
HandlerNext ==
    /\ HandlerAt("Next")
    /\ stack' = SetTopPush(Req, [Top(Req) EXCEPT !.ops = Tail(@), !.nx = TRUE],
                           NextFrame)
    /\ UNCHANGED <<tree, ctxNode, cursor, phase, status, hist, reqs, ops, pool>>

\* the handler registers a finalizer: c.push(fn)
HandlerPush ==
    /\ HandlerAt("push")
    /\ deferred' = push(deferred, Len(deferred))
    /\ stack' = SetTop(Req, [Top(Req) EXCEPT !.ops = Tail(@)])
    /\ UNCHANGED <<tree, ctxNode, index, managers, phase, status, hist, reqs, ops, pool>>

\* c.PostProcess(...); c.context.cancel(true, Canceled)
Cancel ==
    /\ HandlerAt("Cancel")
    /\ stack' = SetTopPush(Req, [Top(Req) EXCEPT !.ops = Tail(@)],
                           cancelFrame(ctxNode, TRUE, Canceled, "call"))
    /\ UNCHANGED <<tree, ctxNode, cursor, phase, status, hist, reqs, ops, pool>>

\* the handler calls c.replicate()
replicate ==
    /\ HandlerAt("replicate")
    /\ stack' = SetTopPush(Req, [Top(Req) EXCEPT !.ops = Tail(@)],
                           replicateFrame(ctxNode))
    /\ UNCHANGED <<tree, ctxNode, cursor, phase, status, hist, reqs, ops, pool>>

\* if c.index != -1 { c.index = -1 }; c.managers = managers; c.Next()
rerun ==
    /\ HandlerAt("rerun")
    /\ index' = IF index # -1 THEN -1 ELSE index
    /\ managers' = Head(Top(Req).ops).managers
    /\ epoch' = epoch + 1
    /\ log' = Append(log, RerunEv(Top(Req).i, epoch + 1))
    /\ stack' = SetTopPush(Req, [Top(Req) EXCEPT !.ops = Tail(@), !.rr = TRUE],
                           NextFrame)
    /\ UNCHANGED <<tree, ctxNode, deferred, phase, status, chain, prior, reqs, ops, pool>>

\* The *handlers of the ctx value whose context is c.  reset gives the pooled
\* ctx its own; replicate copies the ctx struct, and with it the embedded
\* pointer, so a replica has the handlers of the ctx it was made from.
RECURSIVE handlersOf(_)
handlersOf(c) ==
    IF nodes[c].parent = NoNode THEN c ELSE handlersOf(nodes[c].parent)

\* the replica the handler's replicate() returned
Replica == CHOOSE r \in ctxs : \A c \in ctxs : c <= r

\* the handler calls r.push(fn) on its replica:
\* r.deferred = append(r.deferred, fn), through r.handlers
ReplicaPush ==
    /\ HandlerAt("replicaPush")
    /\ deferred' = IF handlersOf(Replica) = handlersOf(ctxNode)
                   THEN push(deferred, Len(deferred)) ELSE deferred
    /\ stack' = SetTop(Req, [Top(Req) EXCEPT !.ops = Tail(@)])
    /\ UNCHANGED <<tree, ctxNode, index, managers, phase, status, hist, reqs, ops, pool>>

\* the handler panics
HandlerPanic ==
    /\ HandlerAt("panic")
    /\ Panic(Req)
    /\ UNCHANGED <<tree, ctxNode, cursor, phase, stack, hist, reqs, ops, pool>>

\* the handler returns
HandlerReturn ==
    /\ Running(Req, "handler")
    /\ Top(Req).ops = <<>>
    /\ log' = Append(log, RetEv(Top(Req)))
    /\ stack' = Pop(Req)
    /\ UNCHANGED <<tree, ctxNode, cursor, phase, status, epoch, chain, prior, reqs, ops, pool>>

\* ------------------------------------------------------------ App.ServeHTTP
\* App.p: free, the ctx values in the pool; made, the ctx values constructed
\* so far.  held is the local ctx of every ServeHTTP call and pc where the
\* call is.  History: again, the ctx values handed out from the pool.
Servers == 1 .. MaxServers
NoCtx == 0
emptyPool ==
    [free |-> {}, made |-> 0, again |-> {},
     held |-> [s \in Servers |-> NoCtx], pc |-> [s \in Servers |-> "idle"]]

\* app.p.New = app.newCtx: a ctx no request has
newCtx(p) == IF p.made < MaxCtxs THEN {p.made + 1} ELSE {}

\* getCtx: a ctx of the pool, or a new one; a pool may construct one even
\* when it holds some
getCtx(p) == p.free \cup newCtx(p)

\* putCtx: the ctx is in the pool again
putCtx(p, c) == [p EXCEPT !.free = @ \cup {c}]

\* rslt := a.lookup(...); ctx := a.getCtx(w, r, rslt)
ServeGetCtx(s) ==
    /\ pool.pc[s] = "idle"
    /\ \E c \in getCtx(pool) :
          pool' = [pool EXCEPT !.free = @ \ {c},
                               !.made = IF c > @ THEN c ELSE @,
                               !.again = IF c \in pool.free THEN @ \cup {c} ELSE @,
                               !.held[s] = c,
                               !.pc[s] = "handler"]
    /\ UNCHANGED request

\* ServeHandlerCall, if ServeHTTP put the ctx back before it ran the handler
ServeHandlerCallPut(s) ==
    /\ pool.pc[s] = "handler"
    /\ pool' = [putCtx(pool, pool.held[s]) EXCEPT !.pc[s] = "Run"]
    /\ UNCHANGED request

\* rslt.handler(ctx): the handler of the route starts ctx.Run()
ServeHandlerCall(s) ==
    /\ pool.pc[s] = "handler"
    /\ pool' = [pool EXCEPT !.pc[s] = "Run"]
    /\ UNCHANGED request

\* the chain and the finalizers of Run have returned
ServeHandlerReturn(s) ==
    /\ pool.pc[s] = "Run"
    /\ pool' = [pool EXCEPT !.pc[s] = "putCtx"]
    /\ UNCHANGED request

\* the run panics: ServeHTTP is left without putCtx, its ctx is garbage
ServeHandlerPanic(s) ==
    /\ pool.pc[s] = "Run"
    /\ pool' = [pool EXCEPT !.held[s] = NoCtx, !.pc[s] = "idle"]
    /\ UNCHANGED request

\* a.putCtx(ctx); ServeHTTP returns
ServePutCtx(s) ==
    /\ pool.pc[s] = "putCtx"
    /\ pool' = [putCtx(pool, pool.held[s]) EXCEPT !.held[s] = NoCtx,
                                                    !.pc[s] = "idle"]
    /\ UNCHANGED request

\* ---------------------------------------------- one request after another
Init ==
    /\ nodes = <<>>
    /\ ctxNode = NoNode
    /\ ctxs = {}
    /\ index = defaulthandlers.index
    /\ managers = defaulthandlers.managers
    /\ deferred = defaulthandlers.deferred
    /\ phase = "idle"
    /\ stack = [t \in Threads |-> <<>>]
    /\ status = [t \in Threads |-> "ok"]
    /\ log = <<>>
    /\ epoch = 0
    /\ chain = <<>>
    /\ prior = NoPrior
    /\ reqs = 0
    /\ ops = 0
    /\ pool = emptyPool

Serve ==
    \/ resetHandlers
    \/ \E m \in Chains : resetManagers(m)
    \/ Run
    \/ RunRange
    \/ RunFinalizer
    \/ RunReturn
    \/ NextEnter
    \/ NextCall
    \/ NextIncr
    \/ NextReturn
    \/ HandlerNext
    \/ HandlerPush
    \/ Cancel
    \/ replicate
    \/ rerun
    \/ ReplicaPush
    \/ HandlerPanic
    \/ HandlerReturn
    \/ TreeCall(Req)

Spec == Init /\ [][Serve]_vars

\* ------------------------------------- goroutines sharing one request
\* The ctx has been reset and replicated twice; worker goroutines replicate
\* and cancel the three ctx values while the request goroutine is parked.
TreeInit ==
    /\ nodes = <<[newcontext(NoNode) EXCEPT !.kids = {2, 3}, !.kidsNil = FALSE],
                 newcontext(1), newcontext(1)>>
    /\ ctxNode = 1
    /\ ctxs = {1, 2, 3}
    /\ index = defaulthandlers.index
    /\ managers = defaulthandlers.managers
    /\ deferred = defaulthandlers.deferred
    /\ phase = "bound"
    /\ stack = [t \in Threads |-> <<>>]
    /\ status = [t \in Threads |-> "ok"]
    /\ log = <<>>
    /\ epoch = 0
    /\ chain = <<>>
    /\ prior = NoPrior
    /\ reqs = 1
    /\ ops = MaxOps
    /\ pool = emptyPool

Errs == {NoErr, Other}

Idle(t) == status[t] = "ok" /\ stack[t] = <<>> /\ ops > 0

\* a goroutine calls replicate() on a ctx of the request
WorkerReplicate(t, c) ==
    /\ Idle(t)
    /\ Len(nodes) < MaxNodes
    /\ stack' = Push(t, replicateFrame(c))
    /\ ops' = ops - 1
    /\ UNCHANGED <<tree, ctxNode, cursor, phase, status, hist, reqs, pool>>

\* a goroutine calls Cancel() on a ctx of the request
WorkerCancel(t, c) ==
    /\ Idle(t)
    /\ stack' = Push(t, cancelFrame(c, TRUE, Canceled, "call"))
    /\ ops' = ops - 1
    /\ UNCHANGED <<tree, ctxNode, cursor, phase, status, hist, reqs, pool>>

\* a goroutine calls cancel(false, err) on the context of a ctx
WorkerCancelErr(t, c, err) ==
    /\ Idle(t)
    /\ stack' = Push(t, cancelFrame(c, FALSE, err, "call"))
    /\ ops' = ops - 1
    /\ UNCHANGED <<tree, ctxNode, cursor, phase, status, hist, reqs, pool>>

Share ==
    \E t \in Workers :
        \/ \E c \in ctxs : WorkerReplicate(t, c)
        \/ \E c \in ctxs : WorkerCancel(t, c)
        \/ \E c \in ctxs, err \in Errs : WorkerCancelErr(t, c, err)
        \/ TreeCall(t)

TreeSpec == TreeInit /\ [][Share]_vars

\* ------------------------- goroutines that also read the error of a ctx
\* a goroutine calls Err() on a ctx of the request; Err changes nothing, so
\* these calls are not counted
WorkerErr(t, c) ==
    /\ status[t] = "ok"
    /\ stack[t] = <<>>
    /\ stack' = Push(t, ErrFrame(c))
    /\ UNCHANGED <<tree, ctxNode, cursor, phase, status, hist, reqs, ops, pool>>

Observe ==
    \E t \in Workers :
        \/ \E c \in ctxs : WorkerErr(t, c)
        \/ ErrLock(t)
        \/ ErrReturn(t)

LockSpec == TreeInit /\ [][Share \/ Observe]_vars

\* ------------------------------------------- requests served concurrently
ServeHTTP ==
    \E s \in Servers :
        \/ ServeGetCtx(s)
        \/ ServeHandlerCall(s)
        \/ ServeHandlerReturn(s)
        \/ ServeHandlerPanic(s)
        \/ ServePutCtx(s)

PoolSpec == Init /\ [][ServeHTTP]_vars

\* ================================================================ claims
Frames(t) == {stack[t][k] : k \in 1 .. Len(stack[t])}
Events(e) == {p \in 1 .. Len(log) : log[p].e = e}
PanickedIn(t, f) == status[t] = "panicked" /\ stack[t] # <<>> /\ Top(t).fn = f

C2_EachOnceInOrder ==
    epoch = 0 =>
        /\ \A p \in Events("call") : log[p].i >= 0 /\ log[p].i < Len(managers)
        /\ \A p, q \in Events("call") : p < q => log[p].i < log[q].i
        /\ ~PanickedIn(Req, "Next")

\* C3: a second cancel of a cancelled node does not panic and leaves the
\* error of the first call.
C3_CancelIdempotent ==
    \A n \in Ids :
        Len(nodes[n].calls) >= 2 =>
            /\ \A t \in Threads : ~(PanickedIn(t, "cancel") /\ Top(t).c = n)
            /\ nodes[n].err = nodes[n].calls[1].err

\* C4: when one cancel of a parent and the registration of a child on it
\* have both completed, in whichever order their critical sections ran, the
\* child is done with the parent's error and is not in the parent's child
\* set; a child that registered late was never put in the set.
CancelOpen(p) ==
    \E t \in Threads : \E f \in Frames(t) : f.fn = "cancel" /\ f.c = p
Registering(p, n) ==
    \E t \in Threads : \E f \in Frames(t) :
        f.fn = "propagateCancel" /\ f.p = p /\ f.child = n
Vias(n) == {nodes[n].calls[k].via : k \in 1 .. Len(nodes[n].calls)}
C4_NoLateChildEscape ==
    \A n \in Ids :
        LET p == nodes[n].parent IN
        p # NoNode =>
            /\ (/\ Len(nodes[p].calls) = 1
                /\ ~CancelOpen(p)
                /\ ~Registering(p, n)
                /\ "call" \notin Vias(n))
                   => /\ nodes[n].done = "closed"
                      /\ nodes[n].err = nodes[p].err
                      /\ n \notin nodes[p].kids
            /\ "late" \in Vias(n) => n \notin nodes[p].kids

C4_Witness ==
    \E n \in Ids :
        /\ nodes[n].parent # NoNode
        /\ Vias(n) = {"late"}
        /\ ~CancelOpen(nodes[n].parent)
        /\ ~Registering(nodes[n].parent, n)
        /\ n \in ctxs
        /\ nodes[n].done = "closed"

\* C5: no step of a cancel call, at any depth of its recursion, changes the
\* done-signal or the error of an ancestor of the context it was called on.
Stepped(t) == stack'[t] # stack[t] \/ status'[t] # status[t]
Outer(t) ==
    LET k == CHOOSE j \in 1 .. Len(stack[t]) :
                 /\ stack[t][j].fn = "cancel"
                 /\ \A i \in 1 .. j - 1 : stack[t][i].fn # "cancel"
    IN stack[t][k].c
InCancel(t) == \E f \in Frames(t) : f.fn = "cancel"
C5_NeverUpward ==
    [][\A t \in Threads :
          (InCancel(t) /\ Stepped(t)) =>
              \A a \in Ancestors(Outer(t)) :
                  /\ nodes'[a].done = nodes[a].done
                  /\ nodes'[a].err = nodes[a].err]_vars

C5_Witness ==
    \E n \in Ids :
        /\ nodes[n].parent # NoNode
        /\ nodes[n].detached >= 1
        /\ nodes[n].done = "closed"
        /\ nodes[nodes[n].parent].done = "open"
        /\ nodes[nodes[n].parent].err = NoErr

\* C6: when the callers cancel every ctx at most once, with Cancel, a cancel
\* of a context never stops before every replica that was registered under
\* it is done with its error.
CalledOnce ==
    \A n \in Ids :
        LET K == {k \in 1 .. Len(nodes[n].calls) : nodes[n].calls[k].via = "call"}
        IN Cardinality(K) <= 1 /\ \A k \in K : nodes[n].calls[k].err = Canceled
Cancelling(p) ==
    \E t \in Threads : \E f \in Frames(t) :
        status[t] = "ok" /\ f.fn = "cancel" /\ f.c = p
C6_Propagates ==
    CalledOnce =>
        \A p \in Ids :
            (nodes[p].done = "closed" /\ ~Cancelling(p)) =>
                \A c \in nodes[p].swept :
                    nodes[c].done = "closed" /\ nodes[c].err = nodes[p].err

\* C7: once Cancel has returned on a replica, the replica is not in the
\* child set of its parent.
C7_SelfCancelDetaches ==
    \A n \in Ids :
        (nodes[n].parent # NoNode /\ nodes[n].detached >= 1)
            => n \notin nodes[nodes[n].parent].kids

\* C8: right after reset, also on a ctx that served a request before, the
\* context is open, without error, parent or children, the index is -1, the
\* chain given to reset is bound and no finalizer is registered.
C8_ResetIsFresh ==
    phase = "bound" =>
        /\ nodes[ctxNode].done = "open"
        /\ nodes[ctxNode].err = NoErr
        /\ nodes[ctxNode].parent = NoNode
        /\ nodes[ctxNode].kids = {}
        /\ nodes[ctxNode].mu = Free
        /\ \A n \in Ids : ctxNode \notin nodes[n].kids /\ nodes[n].parent # ctxNode
        /\ index = -1
        /\ managers = chain
        /\ deferred = <<>>

C8_Witness ==
    /\ phase = "bound"
    /\ prior.used /\ prior.cancelled /\ prior.replicated /\ prior.advanced
    /\ managers # <<>>
    /\ nodes[ctxNode].done = "open"

\* C9: Run queues the release finalizer before any handler runs; the
\* finalizers run only once Next has returned, in append order, each at most
\* once, and when Run returns every registered one has run.
FinIds ==
    LET F == SelectSeq(log, LAMBDA ev : ev.e = "fin") IN
    [k \in 1 .. Len(F) |-> F[k].i]
IsPrefix(a, b) == Len(a) <= Len(b) /\ SubSeq(b, 1, Len(a)) = a
C9_FinalizersAfterChain ==
    /\ phase = "running" => (deferred # <<>> /\ deferred[1] = Release)
    /\ IsPrefix(FinIds, deferred)
    /\ \A j, k \in 1 .. Len(FinIds) : j < k => FinIds[j] < FinIds[k]
    /\ \A p \in Events("fin") :
          /\ Len(stack[Req]) <= 1
          /\ \A q \in Events("call") \cup Events("ret") : q < p
    /\ (phase = "idle" /\ reqs > 0) => FinIds = deferred

C9_Witness ==
    /\ phase = "idle"
    /\ reqs > 0
    /\ Len(deferred) >= 2
    /\ FinIds = deferred
    /\ nodes[ctxNode].err = Canceled

\* C10: once a handler has called rerun, the handlers of the new chain run
\* in order, no handler of the chain bound before runs any more, and Next
\* does not panic but returns to its caller.
C10_RestartReturns ==
    epoch >= 1 =>
        /\ \A p \in Events("rerun"), q \in Events("call") :
              p < q => log[q].ep >= log[p].ep
        /\ \A p, q \in Events("call") :
              (p < q /\ log[p].ep = log[q].ep) => log[p].i < log[q].i
        /\ ~PanickedIn(Req, "Next")

\* C11: when a handler has panicked during the Next of Run, the release
\* finalizer and every other registered finalizer have run by the time the
\* panic has left Run.
InHandler(t) == \E f \in Frames(t) : f.fn = "handler"
C11_FinalizersOnPanic ==
    (status[Req] = "panicked" /\ InHandler(Req)) =>
        (Release \in {FinIds[k] : k \in 1 .. Len(FinIds)} /\ FinIds = deferred)

\* C12: no ctx is held by two ServeHTTP calls at once, no ctx a call holds
\* is in the pool, and a ctx is in the pool again only once the run of its
\* request has returned.
Active(s) == pool.pc[s] \in {"handler", "Run", "putCtx"}
C12_NoSharedCtx ==
    /\ \A s \in Servers : Active(s) <=> pool.held[s] # NoCtx
    /\ \A s \in Servers : Active(s) => pool.held[s] \notin pool.free
    /\ \A s1, s2 \in Servers :
          (s1 # s2 /\ Active(s1) /\ Active(s2)) => pool.held[s1] # pool.held[s2]

C12_Witness ==
    /\ \E s1, s2 \in Servers : s1 # s2 /\ pool.pc[s1] = "Run" /\ pool.pc[s2] = "Run"
    /\ \E s \in Servers : pool.pc[s] = "Run" /\ pool.held[s] \in pool.again

\* C13: a push on a replica leaves the index, the chain and the finalizer
\* list of the ctx it was replicated from as they are.
C13_ReplicaLeavesCursor ==
    [][(HandlerAt("replicaPush") /\ Stepped(Req)) => cursor' = cursor]_vars

\* C14: whenever the mutex of a node is free, so that Err can return and be
\* compared with Done, the error of the node is non-nil exactly when its
\* done channel is closed.
C14_ErrIffDone ==
    \A n \in Ids :
        nodes[n].mu = Free => (nodes[n].err # NoErr <=> nodes[n].done = "closed")

C14_Witness ==
    \E n, m \in Ids :
        /\ nodes[n].mu = Free /\ nodes[n].err # NoErr /\ nodes[n].done = "closed"
        /\ Len(nodes[n].calls) = 1
        /\ nodes[m].mu = Free /\ nodes[m].err = NoErr /\ nodes[m].done = "open"
        /\ nodes[m].parent # NoNode

\* C15: once a cancel has returned on a node, every child registered when it
\* ran has been cancelled by it with its error and the child set is empty;
\* and no node whose error is set, and that no goroutine is cancelling, has
\* a registered child.
Positions == UNION {{<<t, k>> : k \in 1 .. Len(stack[t])} : t \in Threads}
Returned(p) ==
    Len(nodes[p].calls)
        - Cardinality({tk \in Positions :
                          LET f == stack[tk[1]][tk[2]] IN
                          f.fn = "cancel" /\ f.c = p /\ f.pc # "enter"})
SweptBy(p) ==
    \A c \in nodes[p].swept :
        /\ nodes[c].done = "closed"
        /\ \E k \in 1 .. Len(nodes[c].calls) :
              nodes[c].calls[k] = [err |-> nodes[p].calls[1].err, via |-> "parent"]
C15_SweptAndCleared ==
    \A p \in Ids :
        /\ Returned(p) >= 1 => (SweptBy(p) /\ nodes[p].kids = {})
        /\ (nodes[p].err # NoErr /\ ~Cancelling(p)) => nodes[p].kids = {}

\* C16: a child that is done because the cancellation of its parent reached
\* it, through the child loop of cancel or through a late registration, has
\* a parent whose error is set and whose done channel is closed.
Propagated(n) ==
    /\ nodes[n].done = "closed"
    /\ nodes[n].calls # <<>>
    /\ nodes[n].calls[1].via \in {"parent", "late"}
C16_ParentFirst ==
    \A n \in Ids :
        Propagated(n) =>
            /\ nodes[nodes[n].parent].err # NoErr
            /\ nodes[nodes[n].parent].done = "closed"

C16_Witness ==
    \E n, m \in Ids :
        /\ Propagated(n) /\ nodes[n].calls[1].via = "parent"
        /\ Propagated(m) /\ nodes[m].calls[1].via = "late"

\* C17: a cancel with a nil error panics in its first step and changes no
\* node and calls no child.
C17_NilCancelPanics ==
    [][\A t \in Threads :
          (At(t, "cancel", "enter") /\ Top(t).err = NoErr /\ Stepped(t)) =>
              /\ status'[t] = "panicked"
              /\ stack'[t] = stack[t]
              /\ nodes' = nodes]_vars

C17_Witness ==
    \E t \in Threads :
        /\ PanickedIn(t, "cancel")
        /\ Top(t).err = NoErr
        /\ nodes[Top(t).c].kids # {}
        /\ nodes[Top(t).c].done = "open"
        /\ nodes[Top(t).c].err = NoErr

\* C18: in one run the index never decreases and never is below -1, except
\* that rerun, or the reset of the next request, sets it to -1.
C18_IndexMonotone ==
    [][\/ index' >= index /\ index' >= -1
       \/ (epoch' # epoch \/ reqs' # reqs) /\ index' = -1]_vars

\* C19: whenever Next is about to call c.managers[c.index], the index is at
\* least 0 and below the length of the chain bound at that moment.
C19_IndexInRange ==
    (At(Req, "Next", "test") /\ index < Top(Req).s) =>
        (index >= 0 /\ index < Len(managers))

\* C20: when every ctx of the tree is cancelled by its callers at most once,
\* with Cancel, no cancel panics closing a done channel that is closed.
C20_NoDoubleClose ==
    CalledOnce =>
        \A t \in Threads : ~(PanickedIn(t, "cancel") /\ Top(t).pc = "close")

\* C21: the mutexes a goroutine holds are those of one node and of
\* descendants of it, and no cancel, propagateCancel or Err call in progress
\* is stuck for ever: the mutex it needs is free, or is held by a goroutine
\* that is not stuck itself.
HeldBy(t) == {n \in Ids : nodes[n].mu = t}
Needs(t) ==
    IF stack[t] = <<>> THEN {}
    ELSE LET f == Top(t) IN
         IF f.fn = "cancel" /\ f.pc = "enter" /\ f.err # NoErr THEN {f.c}
         ELSE IF f.fn = "propagateCancel" /\ f.pc = "enter" THEN {f.p}
         ELSE IF f.fn = "Err" /\ f.pc = "enter" THEN {f.c}
         ELSE {}
RECURSIVE CanRun(_, _)
CanRun(t, depth) ==
    /\ status[t] = "ok"
    /\ \A n \in Needs(t) :
          \/ nodes[n].mu = Free
          \/ depth > 0 /\ CanRun(nodes[n].mu, depth - 1)
C21_NoDeadlock ==
    \A t \in Threads :
        /\ \A n, m \in HeldBy(t) :
              n = m \/ n \in Ancestors(m) \/ m \in Ancestors(n)
        /\ (stack[t] # <<>> /\ status[t] = "ok") => CanRun(t, Cardinality(Threads))

====
